---- MODULE Spec2Model ----
(***************************************************************************)
(* Model of the Excel comparison engine (src/excel_compare.py) and of the  *)
(* result display of the Streamlit application (src/app.py).               *)
(*                                                                         *)
(* A table (pandas DataFrame) is a record [cols, rows]: cols is the        *)
(* ordered list of column names, rows the list of rows, each row a         *)
(* function from the column names to cell values.  Python row positions    *)
(* are 0-based: df[col].iloc[i] is Cell(df, col, i) == df.rows[i+1][col].  *)
(*                                                                         *)
(* Python strings that the code builds or transforms (str(val), strip(),   *)
(* str(tuple), sorted(...)) are sequences of one-character strings, so    *)
(* that the conversions are computed and not assumed.  Column names are    *)
(* only compared for equality and are kept as TLA+ strings.                *)
(*                                                                         *)
(* An optional value (Python None or a value) is a sequence of length at   *)
(* most one: <<>> is None, <<x>> is x.                                      *)
(*                                                                         *)
(* The order in which Python iterates a set of str or of tuples of str     *)
(* depends on the hash seed of the process.  Every invocation runs under   *)
(* one of the seeds of HashSeeds, and a set is read through SetIter.       *)
(***************************************************************************)
EXTENDS Integers, Sequences, FiniteSets, TLC

VARIABLES df1, df2, key_columns, result, shown, pc, rerun

vars == <<df1, df2, key_columns, result, shown, pc, rerun>>

(***************************************************************************)
(* Bounds of the model                                                     *)
(***************************************************************************)
\* Largest number of data rows of File 1 and of File 2.
MaxRows1 == 3

MaxRows2 == 2

(***************************************************************************)
(* Generic helpers                                                         *)
(***************************************************************************)
Range(s) == {s[n] : n \in 1..Len(s)}

None == <<>>

Some(x) == <<x>>

(***************************************************************************)
(* Program constants                                                       *)
(***************************************************************************)
KEY_COLUMN == "Purchasing document number"

COMPARE_COLUMNS ==
    << "Purchasing document number",
       "0GN_VENDOR",
       "Purchasing Document Type",
       "Puchasing document category",
       "Source System for R/3 Entity",
       "Invoicing Party",
       "Logical System Backend",
       "Status of purchasing document",
       "Purchasing Organization",
       "Purchasing Group",
       "Source system ID",
       "Supplying Plant",
       "0VENDOR",
       "Purchase Document Date",
       "Date on which the purchasing document wa",
       "Fiscal year / period",
       "Fiscal year variant",
       "Fiscal year",
       "Posting Date in the Document",
       "Update Date",
       "Validity period end",
       "Validity Period Start",
       "Calendar Day Number",
       "Calender Week - Saturday",
       "Calender Week - Sunday",
       "Calendar Week Number",
       "Document Currency",
       "Purchase Order Currency",
       "Company Code",
       "Name of person who created the object",
       "Date on which the record was created",
       "Transaction for purchasing document",
       "Logical System",
       "Ordering address",
       "Vendor to whom partner roles are assigne",
       "Goods Supplier",
       "Supplying vendor",
       "Supplying plant to which partner roles h",
       "Released Date",
       "Released By",
       "PO release indicator",
       "PO release status",
       "Number of deliveries",
       "Exchange rate for pricing and statistics",
       "No. of invoices",
       "Counter for documents",
       "Re-Release Count",
       "Total value at the time of Release" >>

\* The text "(missing in File 2)" stored as File 2's value of an unmatched row.
MissingInFile2 ==
    << "(", "m", "i", "s", "s", "i", "n", "g", " ", "i", "n", " ",
       "F", "i", "l", "e", " ", "2", ")" >>

(***************************************************************************)
(* Cell values: NaN (an empty cell), an int, a float holding a whole       *)
(* number, or a text.                                                      *)
(***************************************************************************)
NaN == [tag |-> "nan", n |-> 0, s |-> <<>>]

IntVal(k) == [tag |-> "int", n |-> k, s |-> <<>>]

FloatVal(k) == [tag |-> "float", n |-> k, s |-> <<>>]

StrVal(chars) == [tag |-> "str", n |-> 0, s |-> chars]

DigitChar(d) == CASE d = 0 -> "0" [] d = 1 -> "1" [] d = 2 -> "2" [] d = 3 -> "3"
                  [] d = 4 -> "4" [] d = 5 -> "5" [] d = 6 -> "6" [] d = 7 -> "7"
                  [] d = 8 -> "8" [] d = 9 -> "9"

RECURSIVE Digits(_)
\* Decimal digits of a natural number, as str(int) prints them.
Digits(k) == IF k < 10 THEN <<DigitChar(k)>>
             ELSE Append(Digits(k \div 10), DigitChar(k % 10))

\* Python's str(val) for a cell value.
PyStr(val) ==
    CASE val.tag = "nan" -> <<"n", "a", "n">>
      [] val.tag = "int" -> Digits(val.n)
      [] val.tag = "float" -> Digits(val.n) \o <<".", "0">>
      [] val.tag = "str" -> val.s

IsSpace(ch) == ch = " "

RECURSIVE LStrip(_)
LStrip(s) == IF s # <<>> /\ IsSpace(Head(s)) THEN LStrip(Tail(s)) ELSE s

RECURSIVE RStrip(_)
RStrip(s) == IF s # <<>> /\ IsSpace(s[Len(s)])
             THEN RStrip(SubSeq(s, 1, Len(s) - 1)) ELSE s

\* Python's str.strip(): leading and trailing whitespace removed.
Strip(s) == RStrip(LStrip(s))

\* pd.isna(val): NaN and None are one value here.
IsNa(val) == val.tag = "nan"

_normalize_value(val) ==
    IF IsNa(val) THEN <<>>
    ELSE IF val.tag \in {"int", "float"} THEN Strip(PyStr(val))
    ELSE Strip(PyStr(val))

(***************************************************************************)
(* Tables                                                                  *)
(***************************************************************************)
NRows(df) == Len(df.rows)

Columns(df) == Range(df.cols)

\* df[col].iloc[i], i counted from 0.
Cell(df, col, i) == df.rows[i + 1][col]

\* The composite key of row i: the tuple of the normalized key values.
_row_key(df, keys, i) == [n \in 1..Len(keys) |-> _normalize_value(Cell(df, keys[n], i))]

RECURSIVE Join(_, _)
\* sep.join(parts) for a list of character sequences.
Join(parts, sep) ==
    IF parts = <<>> THEN <<>>
    ELSE IF Len(parts) = 1 THEN Head(parts)
    ELSE Head(parts) \o sep \o Join(Tail(parts), sep)

\* The display string of the key of row i: str(value) for a single key
\* column, "col1=val1, col2=val2" for several.  A column name is one element
\* of the sequence, the other characters one element each.
_row_key_display(df, keys, i) ==
    LET parts == [n \in 1..Len(keys) |->
                     <<keys[n], "=">> \o PyStr(Cell(df, keys[n], i))]
    IN  IF Len(parts) > 1 THEN Join(parts, <<",", " ">>)
        ELSE PyStr(Cell(df, keys[1], i))

\* A dict is a function from its keys; {} is the function with no key.
EmptyDict == <<>>

\* dict.get(k): None when k is no key.
DictGet(d, k) == IF k \in DOMAIN d THEN Some(d[k]) ELSE None

\* IndexStep overwriting an earlier row of the same key.
IndexStep_LastWins(out, k, i) == (k :> i) @@ out

\* One pass of the loop of _build_key_to_row_index: keep the first row.
IndexStep(out, k, i) == IF k \notin DOMAIN out THEN out @@ (k :> i) ELSE out

RECURSIVE IndexLoop(_, _, _, _)
IndexLoop(df, keys, i, out) ==
    IF i >= NRows(df) THEN out
    ELSE IndexLoop(df, keys, i + 1, IndexStep(out, _row_key(df, keys, i), i))

_build_key_to_row_index(df, keys) ==
    LET missing == SelectSeq(keys, LAMBDA c : c \notin Columns(df))
    IN  IF missing # <<>> THEN EmptyDict
        ELSE IndexLoop(df, keys, 0, EmptyDict)

(***************************************************************************)
(* ComparisonResult and CellDifference                                     *)
(***************************************************************************)
\* error = None of a result without error; otherwise the message, kept as
\* its parts: the file, the missing key columns, the columns available.
ErrorMessage(file, missing, available) ==
    Some([file |-> file, missing |-> missing, available |-> available])

\* ComparisonResult(rows_file1=..., rows_file2=..., key_column=...): the
\* other fields take the dataclass defaults.  The sheet names are passed
\* through unread and are left out.
ComparisonResult(rows1, rows2, key_column_display) ==
    [ differences |-> <<>>,
      columns_only_in_file1 |-> <<>>,
      columns_only_in_file2 |-> <<>>,
      common_columns |-> <<>>,
      rows_file1 |-> rows1,
      rows_file2 |-> rows2,
      cells_compared |-> 0,
      total_differences |-> 0,
      key_column |-> key_column_display,
      keys_only_in_file1 |-> <<>>,
      keys_only_in_file2 |-> <<>>,
      error |-> None,
      columns_compared |-> <<>>,
      requested_columns_missing_in_file1 |-> <<>>,
      requested_columns_missing_in_file2 |-> <<>>,
      key_crosstabs |-> <<>> ]

CellDifference(i, col, v1, v2, xl1, xl2, key_val) ==
    [ row_index |-> i, column |-> col, value_file1 |-> v1, value_file2 |-> v2,
      excel_row |-> xl1, excel_row_file2 |-> xl2, key_value |-> key_val ]

\* ComparisonResult.match_percentage, in hundredths of a percent (10000 is
\* 100.0).  round(x, 2) rounds to the nearest hundredth, a tie to the even one.
RoundHalfEven(num, den) ==
    LET q == num \div den
        r == num % den
    IN  IF 2 * r > den \/ (2 * r = den /\ q % 2 = 1) THEN q + 1 ELSE q

\* match_percentage cutting the digits after the second decimal.
match_percentage_Truncated(res) ==
    IF res.cells_compared = 0 THEN 10000
    ELSE (10000 * (res.cells_compared - res.total_differences)) \div res.cells_compared

match_percentage(res) ==
    IF res.cells_compared = 0 THEN 10000
    ELSE RoundHalfEven(10000 * (res.cells_compared - res.total_differences),
                       res.cells_compared)

(***************************************************************************)
(* str(tuple) and sorted(...)                                              *)
(***************************************************************************)
\* repr of a str without quote or backslash characters.
PyRepr(chars) == <<"'">> \o chars \o <<"'">>

\* str(k) of a tuple of str: "('a',)" for one element, "('a', 'b')" for more.
TupleStr(k) ==
    LET body == Join([n \in 1..Len(k) |-> PyRepr(k[n])], <<",", " ">>)
    IN  IF Len(k) = 1 THEN <<"(">> \o body \o <<",", ")">>
        ELSE <<"(">> \o body \o <<")">>

\* The code point of the characters that occur in the strings being sorted.
Ord(ch) ==
    CASE ch = " " -> 32 [] ch = "'" -> 39 [] ch = "(" -> 40 [] ch = ")" -> 41
      [] ch = "," -> 44 [] ch = "." -> 46 [] ch = "0" -> 48 [] ch = "1" -> 49
      [] ch = "2" -> 50 [] ch = "3" -> 51 [] ch = "4" -> 52 [] ch = "5" -> 53
      [] ch = "6" -> 54 [] ch = "7" -> 55 [] ch = "8" -> 56 [] ch = "9" -> 57
      [] ch = "a" -> 97 [] ch = "n" -> 110

RECURSIVE StrLess(_, _)
\* Python's s < t on str: lexicographic by code point.
StrLess(a, b) ==
    IF b = <<>> THEN FALSE
    ELSE IF a = <<>> THEN TRUE
    ELSE IF Head(a) # Head(b) THEN Ord(Head(a)) < Ord(Head(b))
    ELSE StrLess(Tail(a), Tail(b))

\* The hash seeds a process can run under.
HashSeeds == {0, 1}

RECURSIVE Enumerate(_)
\* The elements of a set, one after the other, in some fixed order.
Enumerate(S) ==
    IF S = {} THEN <<>>
    ELSE LET x == CHOOSE y \in S : TRUE
         IN  <<x>> \o Enumerate(S \ {x})

Reverse(seq) == [n \in 1..Len(seq) |-> seq[Len(seq) + 1 - n]]

\* The order in which a process with the given hash seed iterates a set:
\* two seeds give two different orders of a set of two or more elements.
SetIter(S, seed) == IF seed = 0 THEN Enumerate(S) ELSE Reverse(Enumerate(S))

RECURSIVE InsertStr(_, _)
\* A str put into a sorted list, behind the elements that are not greater.
InsertStr(x, sorted) ==
    IF sorted = <<>> THEN <<x>>
    ELSE IF StrLess(x, Head(sorted)) THEN <<x>> \o sorted
    ELSE <<Head(sorted)>> \o InsertStr(x, Tail(sorted))

\* sorted(...) left out: the strings as the set hands them over.
SortedStrs_Unsorted(seq) == seq

RECURSIVE SortedStrs(_)
\* sorted(seq) for str: a stable sort of the elements in the order given.
SortedStrs(seq) ==
    IF seq = <<>> THEN <<>>
    ELSE InsertStr(seq[Len(seq)], SortedStrs(SubSeq(seq, 1, Len(seq) - 1)))

\* The column names of the model in code-point order ("0" < "I" < "P").
NameOrder == <<"0GN_VENDOR", "ID", "Purchasing document number">>

\* a < b on two column names of the model.
NameLess(a, b) ==
    (CHOOSE n \in 1..Len(NameOrder) : NameOrder[n] = a)
        < (CHOOSE n \in 1..Len(NameOrder) : NameOrder[n] = b)

RECURSIVE InsertName(_, _)
InsertName(x, sorted) ==
    IF sorted = <<>> THEN <<x>>
    ELSE IF NameLess(x, Head(sorted)) THEN <<x>> \o sorted
    ELSE <<Head(sorted)>> \o InsertName(x, Tail(sorted))

RECURSIVE SortNames(_)
SortNames(seq) ==
    IF seq = <<>> THEN <<>>
    ELSE InsertName(seq[Len(seq)], SortNames(SubSeq(seq, 1, Len(seq) - 1)))

\* sorted(S) for a set of column names.
SortedNames(S, seed) == SortNames(SetIter(S, seed))

\* str(k) for k in S, as a generator over the set.
StrsOf(S, seed) ==
    LET it == SetIter(S, seed) IN [n \in 1..Len(it) |-> TupleStr(it[n])]

\* KeysOnly without the set difference.
KeysOnly_All(keys_a, keys_b, seed) == SortedStrs(StrsOf(keys_a, seed))

\* sorted(str(k) for k in (keys_a - keys_b)).
KeysOnly(keys_a, keys_b, seed) == SortedStrs(StrsOf(keys_a \ keys_b, seed))

(***************************************************************************)
(* compare_excel_files                                                     *)
(*                                                                         *)
(* The loops run over a record st holding what they update: the result     *)
(* fields cells_compared, differences and key_crosstabs, and the locals    *)
(* crosstab_rows and has_diff of the current row.  ctx holds the locals    *)
(* that are fixed during one row: t1, t2, i, j, key_val and the two        *)
(* display rows.                                                           *)
(***************************************************************************)
CrosstabCell(col, v1, v2, is_diff) ==
    [column |-> col, file1 |-> v1, file2 |-> v2, is_difference |-> is_diff]

CrosstabEntry(ctx, crosstab_rows) ==
    [ key_value |-> ctx.key_val,
      excel_row_file1 |-> ctx.excel_row_file1,
      excel_row_file2 |-> ctx.excel_row_file2_val,
      rows |-> crosstab_rows ]

\* UnmatchedStep with the cell counter forgotten.
UnmatchedStep_NoCount(st, ctx, col) ==
    LET v1 == Cell(ctx.t1, col, ctx.i)
    IN  [st EXCEPT
           !.crosstab_rows =
               Append(@, CrosstabCell(col, v1, StrVal(MissingInFile2), TRUE)),
           !.differences =
               Append(@, CellDifference(ctx.i, col, v1, StrVal(MissingInFile2),
                                        ctx.excel_row_file1,
                                        ctx.excel_row_file2_val, ctx.key_val))]

\* UnmatchedStep recording no difference for an empty cell of File 1.
UnmatchedStep_SkipEmpty(st, ctx, col) ==
    LET v1 == Cell(ctx.t1, col, ctx.i)
        s1 == [st EXCEPT
                 !.cells_compared = @ + 1,
                 !.crosstab_rows =
                     Append(@, CrosstabCell(col, v1, StrVal(MissingInFile2),
                                            ~ IsNa(v1)))]
    IN  IF IsNa(v1) THEN s1
        ELSE [s1 EXCEPT
                !.differences =
                    Append(@, CellDifference(ctx.i, col, v1, StrVal(MissingInFile2),
                                             ctx.excel_row_file1,
                                             ctx.excel_row_file2_val, ctx.key_val))]

\* Body of the column loop of a row whose key is not in File 2.
UnmatchedStep(st, ctx, col) ==
    LET v1 == Cell(ctx.t1, col, ctx.i)
    IN  [st EXCEPT
           !.cells_compared = @ + 1,
           !.crosstab_rows =
               Append(@, CrosstabCell(col, v1, StrVal(MissingInFile2), TRUE)),
           !.differences =
               Append(@, CellDifference(ctx.i, col, v1, StrVal(MissingInFile2),
                                        ctx.excel_row_file1,
                                        ctx.excel_row_file2_val, ctx.key_val))]

RECURSIVE UnmatchedLoop(_, _, _)
UnmatchedLoop(st, ctx, cols) ==
    IF cols = <<>> THEN st
    ELSE UnmatchedLoop(UnmatchedStep(st, ctx, Head(cols)), ctx, Tail(cols))

\* IsDiff on the raw values, without normalizing.
IsDiff_Raw(v1, v2) == v1 # v2

\* The verdict of one matched cell: n1 != n2.
IsDiff(v1, v2) == _normalize_value(v1) # _normalize_value(v2)

\* MatchedStep keeping a crosstab cell for the differing columns only.
MatchedStep_DiffCellsOnly(st, ctx, col) ==
    LET v1 == Cell(ctx.t1, col, ctx.i)
        v2 == Cell(ctx.t2, col, ctx.j)
        s1 == [st EXCEPT !.cells_compared = @ + 1]
    IN  IF IsDiff(v1, v2)
        THEN [s1 EXCEPT
                !.has_diff = TRUE,
                !.differences =
                    Append(@, CellDifference(ctx.i, col, v1, v2,
                                             ctx.excel_row_file1,
                                             ctx.excel_row_file2_val,
                                             ctx.key_val)),
                !.crosstab_rows = Append(@, CrosstabCell(col, v1, v2, TRUE))]
        ELSE s1

\* MatchedStep with has_diff never set.
MatchedStep_NoHasDiff(st, ctx, col) ==
    LET v1 == Cell(ctx.t1, col, ctx.i)
        v2 == Cell(ctx.t2, col, ctx.j)
        is_diff == IsDiff(v1, v2)
        s1 == [st EXCEPT !.cells_compared = @ + 1]
        s2 == IF is_diff
              THEN [s1 EXCEPT
                      !.differences =
                          Append(@, CellDifference(ctx.i, col, v1, v2,
                                                   ctx.excel_row_file1,
                                                   ctx.excel_row_file2_val,
                                                   ctx.key_val))]
              ELSE s1
    IN  [s2 EXCEPT !.crosstab_rows = Append(@, CrosstabCell(col, v1, v2, is_diff))]

\* Body of the column loop of a matched row.
MatchedStep(st, ctx, col) ==
    LET v1 == Cell(ctx.t1, col, ctx.i)
        v2 == Cell(ctx.t2, col, ctx.j)
        is_diff == IsDiff(v1, v2)
        s1 == [st EXCEPT !.cells_compared = @ + 1]
        s2 == IF is_diff
              THEN [s1 EXCEPT
                      !.has_diff = TRUE,
                      !.differences =
                          Append(@, CellDifference(ctx.i, col, v1, v2,
                                                   ctx.excel_row_file1,
                                                   ctx.excel_row_file2_val,
                                                   ctx.key_val))]
              ELSE s1
    IN  [s2 EXCEPT !.crosstab_rows = Append(@, CrosstabCell(col, v1, v2, is_diff))]

RECURSIVE MatchedLoop(_, _, _)
MatchedLoop(st, ctx, cols) ==
    IF cols = <<>> THEN st
    ELSE MatchedLoop(MatchedStep(st, ctx, Head(cols)), ctx, Tail(cols))

\* The row of a key that File 2 lacks: every column, then the crosstab entry.
UnmatchedRow(st, ctx, cols) ==
    LET s1 == UnmatchedLoop([st EXCEPT !.crosstab_rows = <<>>], ctx, cols)
    IN  [s1 EXCEPT !.key_crosstabs = Append(@, CrosstabEntry(ctx, s1.crosstab_rows))]

\* A matched row: every column, and the crosstab entry if has_diff.
MatchedRow(st, ctx, cols) ==
    LET s1 == MatchedLoop([st EXCEPT !.crosstab_rows = <<>>, !.has_diff = FALSE],
                          ctx, cols)
    IN  IF s1.has_diff
        THEN [s1 EXCEPT !.key_crosstabs = Append(@, CrosstabEntry(ctx, s1.crosstab_rows))]
        ELSE s1

\* Body of the loop over the rows of File 1.
RowStep(st, t1, t2, keys, cols, key_to_row2, i) ==
    LET key_tuple == _row_key(t1, keys, i)
        jopt == DictGet(key_to_row2, key_tuple)
        ctx == [ t1 |-> t1, t2 |-> t2, i |-> i,
                 j |-> IF jopt = None THEN 0 ELSE jopt[1],
                 key_val |-> _row_key_display(t1, keys, i),
                 excel_row_file1 |-> i + 2,
                 excel_row_file2_val |->
                     IF jopt # None THEN Some(jopt[1] + 2) ELSE None ]
    IN  IF jopt = None THEN UnmatchedRow(st, ctx, cols)
        ELSE MatchedRow(st, ctx, cols)

RECURSIVE RowLoop(_, _, _, _, _, _, _)
RowLoop(st, t1, t2, keys, cols, key_to_row2, i) ==
    IF i >= NRows(t1) THEN st
    ELSE RowLoop(RowStep(st, t1, t2, keys, cols, key_to_row2, i),
                 t1, t2, keys, cols, key_to_row2, i + 1)

\* key_columns = [KEY_COLUMN] when the caller gives None or an empty list.
EffectiveKeys(keys) == IF keys = <<>> THEN <<KEY_COLUMN>> ELSE keys

\* The key columns a table lacks.
MissingKeys(keys, df) == SelectSeq(keys, LAMBDA c : c \notin Columns(df))

\* ErrorResult returning without the message.
ErrorResult_NoMessage(res, file, missing, df) == res

\* The early return: only the error is set on the fresh result.
ErrorResult(res, file, missing, df) ==
    [res EXCEPT !.error = ErrorMessage(file, missing, df.cols)]

\* [c for c in COMPARE_COLUMNS if c in cols1 and c in cols2]
RequestedInBoth(cols1, cols2) ==
    SelectSeq(COMPARE_COLUMNS, LAMBDA c : c \in cols1 /\ c \in cols2)

\* ColumnsCompared in the registry's order.
ColumnsCompared_RegistryOrder(t1, requested_in_both) == requested_in_both

\* [c for c in df1.columns if c in requested_in_both]
ColumnsCompared(t1, requested_in_both) ==
    SelectSeq(t1.cols, LAMBDA c : c \in Range(requested_in_both))

\* keys_in_file1: the set of the keys of all rows of File 1.
KeysInFile(df, keys) == {_row_key(df, keys, i) : i \in 0..(NRows(df) - 1)}

\* The call, in a process whose hash seed is seed.
compare_excel_files(t1, t2, key_columns_arg, seed) ==
    LET keys == EffectiveKeys(key_columns_arg)
        res0 == ComparisonResult(NRows(t1), NRows(t2), Join([n \in 1..Len(keys) |-> <<keys[n]>>], <<",", " ">>))
        missing1 == MissingKeys(keys, t1)
        missing2 == MissingKeys(keys, t2)
        cols1 == Columns(t1)
        cols2 == Columns(t2)
        compare_columns == ColumnsCompared(t1, RequestedInBoth(cols1, cols2))
        key_to_row2 == _build_key_to_row_index(t2, keys)
        keys_in_file1 == KeysInFile(t1, keys)
        keys_in_file2 == DOMAIN key_to_row2
        st0 == [ cells_compared |-> 0, differences |-> <<>>, key_crosstabs |-> <<>>,
                 crosstab_rows |-> <<>>, has_diff |-> FALSE ]
        st == RowLoop(st0, t1, t2, keys, compare_columns, key_to_row2, 0)
    IN  IF missing1 # <<>> THEN ErrorResult(res0, 1, missing1, t1)
        ELSE IF missing2 # <<>> THEN ErrorResult(res0, 2, missing2, t2)
        ELSE [res0 EXCEPT
                !.common_columns = SortedNames(cols1 \cap cols2, seed),
                !.columns_only_in_file1 = SortedNames(cols1 \ cols2, seed),
                !.columns_only_in_file2 = SortedNames(cols2 \ cols1, seed),
                !.columns_compared = compare_columns,
                !.requested_columns_missing_in_file1 =
                    SelectSeq(COMPARE_COLUMNS, LAMBDA c : c \notin cols1),
                !.requested_columns_missing_in_file2 =
                    SelectSeq(COMPARE_COLUMNS, LAMBDA c : c \notin cols2),
                !.keys_only_in_file1 = KeysOnly(keys_in_file1, keys_in_file2, seed),
                !.keys_only_in_file2 = KeysOnly(keys_in_file2, keys_in_file1, seed),
                !.cells_compared = st.cells_compared,
                !.differences = st.differences,
                !.key_crosstabs = st.key_crosstabs,
                !.total_differences = Len(st.differences)]

(***************************************************************************)
(* The application: what main() shows for a result (src/app.py)            *)
(***************************************************************************)
\* _safe_str: "" for None and NaN, otherwise str(val).strip().
_safe_str(val) == IF IsNa(val) THEN <<>> ELSE Strip(PyStr(val))

\* by_col.get(col, {}): the crosstab cell of a column, None if the row has none.
ByCol(tab, col) ==
    LET hits == SelectSeq(tab.rows, LAMBDA r : r.column = col)
    IN  IF hits = <<>> THEN None ELSE Some(hits[Len(hits)])

\* sum(1 for r in tab["rows"] if r.get("is_difference", False))
DiffCount(tab) == Len(SelectSeq(tab.rows, LAMBDA r : r.is_difference))

\* The File 1 and File 2 texts and the highlight of one field of one row.
FieldCells(tab, col) ==
    LET r == ByCol(tab, col)
    IN  IF r = None THEN [file1 |-> <<>>, file2 |-> <<>>, is_diff |-> FALSE]
        ELSE [ file1 |-> _safe_str(r[1].file1), file2 |-> _safe_str(r[1].file2),
               is_diff |-> r[1].is_difference ]

\* The body rows of the HTML table: key, one pair of cells per field, count.
_single_crosstab_to_html(key_crosstabs, field_columns) ==
    [t \in 1..Len(key_crosstabs) |->
        [ key |-> Strip(key_crosstabs[t].key_value),
          fields |-> [c \in 1..Len(field_columns) |->
                         FieldCells(key_crosstabs[t], field_columns[c])],
          diff_count |-> DiffCount(key_crosstabs[t]) ]]

\* The rows of the exported sheet; the last column is "No. of columns differing".
_crosstab_to_dataframe(key_crosstabs, field_columns) ==
    [t \in 1..Len(key_crosstabs) |->
        [ key |-> key_crosstabs[t].key_value,
          fields |-> [c \in 1..Len(field_columns) |->
                         FieldCells(key_crosstabs[t], field_columns[c])],
          diff_count |-> DiffCount(key_crosstabs[t]) ]]

summary_dict(res) ==
    [ rows_file1 |-> res.rows_file1,
      rows_file2 |-> res.rows_file2,
      common_columns |-> Len(res.common_columns),
      columns_only_in_file1 |-> Len(res.columns_only_in_file1),
      columns_only_in_file2 |-> Len(res.columns_only_in_file2),
      cells_compared |-> res.cells_compared,
      total_differences |-> res.total_differences,
      match_percentage |-> match_percentage(res),
      keys_only_in_file1 |-> Len(res.keys_only_in_file1),
      keys_only_in_file2 |-> Len(res.keys_only_in_file2),
      columns_compared |-> Len(res.columns_compared) ]

InfoNoDifferences ==
    "No cell differences found. For every key in File 1, the matching row in File 2 has the same values in common columns."

InfoNoCommonColumns == "No common columns to compare."

WarnNoKey == "Please enter at least one unique column name for matching rows."

\* Nothing shown yet; every part of the page is optional.
Blank ==
    [ warning |-> None, error |-> None, summary |-> None,
      columns_code |-> None, warn_missing_file1 |-> None,
      warn_missing_file2 |-> None, crosstab |-> None, download |-> None,
      info |-> None ]

\* The page after a comparison: the error alone, or the summary, the columns
\* compared, the warnings, and the crosstab or one of the two notes.
Page(res) ==
    IF res.error # None THEN [Blank EXCEPT !.error = res.error]
    ELSE [Blank EXCEPT
            !.summary = Some(summary_dict(res)),
            !.columns_code =
                IF res.columns_compared # <<>> THEN Some(res.columns_compared) ELSE None,
            !.warn_missing_file1 =
                IF res.requested_columns_missing_in_file1 # <<>>
                THEN Some(res.requested_columns_missing_in_file1) ELSE None,
            !.warn_missing_file2 =
                IF res.requested_columns_missing_in_file2 # <<>>
                THEN Some(res.requested_columns_missing_in_file2) ELSE None,
            !.crosstab =
                IF res.differences # <<>>
                THEN Some(_single_crosstab_to_html(res.key_crosstabs, res.columns_compared))
                ELSE None,
            !.download =
                IF res.differences # <<>>
                THEN Some(_crosstab_to_dataframe(res.key_crosstabs, res.columns_compared))
                ELSE None,
            !.info =
                IF res.differences # <<>> THEN None
                ELSE IF res.common_columns # <<>> THEN Some(InfoNoDifferences)
                ELSE Some(InfoNoCommonColumns)]

(***************************************************************************)
(* Inputs                                                                  *)
(***************************************************************************)
\* Column lists of File 1 and of File 2.  "ID" is not in COMPARE_COLUMNS.
Shapes1 ==
    { <<"ID">>, <<"Purchasing document number">>, <<"ID", "0GN_VENDOR">>,
      <<"0GN_VENDOR", "Purchasing document number">> }

Shapes2 ==
    { <<"ID">>, <<"ID", "0GN_VENDOR">>,
      <<"Purchasing document number", "0GN_VENDOR">> }

\* Cell values of File 1 (a float column with empty cells) and of File 2
\* (the same number exported as text with a leading blank, and empty cells).
Values1 == {FloatVal(5), NaN}

Values2 == {StrVal(<<" ", "5", ".", "0">>), NaN}

\* Key column lists given by the caller; <<>> is None or the empty list.
KeyChoices ==
    { <<>>, <<"ID">>, <<"Purchasing document number">>, <<"ID", "0GN_VENDOR">> }

\* Every table with one of the column lists, at most max_rows rows and the
\* given cell values.
Tables(shapes, values, max_rows) ==
    UNION { { [cols |-> c, rows |-> r] :
                r \in UNION { [1..n -> [Range(c) -> values]] : n \in 0..max_rows } } :
            c \in shapes }

(***************************************************************************)
(* State machine                                                           *)
(***************************************************************************)
\* Two tables are loaded and the key columns entered; nothing is computed.
Init ==
    /\ df1 \in Tables(Shapes1, Values1, MaxRows1)
    /\ df2 \in Tables(Shapes2, Values2, MaxRows2)
    /\ key_columns \in KeyChoices
    /\ result = None
    /\ shown = Blank
    /\ pc = "ready"
    /\ rerun = FALSE

\* A call compare_excel_files(df1, df2, key_columns=key_columns).
Compare ==
    /\ pc = "ready"
    /\ \E seed \in HashSeeds :
          result' = Some(compare_excel_files(df1, df2, key_columns, seed))
    /\ pc' = "compared"
    /\ UNCHANGED <<df1, df2, key_columns, shown, rerun>>

\* Another call with the same arguments, in a process of any hash seed: the
\* user runs the comparison again on the files and key columns still entered,
\* and the page is drawn anew.
CompareAgain ==
    /\ pc \in {"compared", "shown"}
    /\ result # None
    /\ \E seed \in HashSeeds :
          result' = Some(compare_excel_files(df1, df2, key_columns, seed))
    /\ pc' = "compared"
    /\ shown' = Blank
    /\ rerun' = TRUE
    /\ UNCHANGED <<df1, df2, key_columns>>

\* main() shows the result of run_comparison; it only compares when the
\* user entered at least one key column.
Render ==
    /\ pc = "compared"
    /\ key_columns # <<>>
    /\ shown' = Page(result[1])
    /\ pc' = "shown"
    /\ UNCHANGED <<df1, df2, key_columns, result, rerun>>

\* main() with no key column entered: a warning and no comparison.
WarnNoKeyColumns ==
    /\ pc = "ready"
    /\ key_columns = <<>>
    /\ shown' = [Blank EXCEPT !.warning = Some(WarnNoKey)]
    /\ pc' = "shown"
    /\ UNCHANGED <<df1, df2, key_columns, result, rerun>>

Next == Compare \/ Render \/ WarnNoKeyColumns

Spec == Init /\ [][Next]_vars

\* As Init, with at most MaxRows2 rows in File 1 too.
InitRerun ==
    /\ df1 \in Tables(Shapes1, Values1, MaxRows2)
    /\ df2 \in Tables(Shapes2, Values2, MaxRows2)
    /\ key_columns \in KeyChoices
    /\ result = None
    /\ shown = Blank
    /\ pc = "ready"
    /\ rerun = FALSE

\* The comparison run any number of times on the same files.
NextRerun == Next \/ CompareAgain

SpecRerun == InitRerun /\ [][NextRerun]_vars

(***************************************************************************)
(* Properties                                                              *)
(***************************************************************************)
\* The result of the call, once it returned.
Res == result[1]

Compared == result # None

\* The call returned a result without error.
Succeeded == Compared /\ Res.error = None

\* The key columns in force.
K == IF key_columns = <<>> THEN <<KEY_COLUMN>> ELSE key_columns

RowsOf(df) == 0..(NRows(df) - 1)

\* The rows of File 2 that carry the composite key of row i of File 1.
MatchesOf(i) ==
    LET k == _row_key(df1, K, i)
    IN  {j \in RowsOf(df2) : _row_key(df2, K, j) = k}

\* The lowest of them.
FirstMatch(i) ==
    LET found == MatchesOf(i)
    IN  CHOOSE j \in found : \A j2 \in found : j <= j2

\* The positions in differences of the differences of cell (i, c).
DiffsAt(i, c) ==
    {n \in 1..Len(Res.differences) :
        Res.differences[n].row_index = i /\ Res.differences[n].column = c}

\* The positions in key_crosstabs of the entries of row i of File 1.
EntriesOf(i) ==
    {n \in 1..Len(Res.key_crosstabs) : Res.key_crosstabs[n].excel_row_file1 = i + 2}

\* The positions in an entry's cell list of the cells of column c.
CellsOf(entry, c) == {m \in 1..Len(entry.rows) : entry.rows[m].column = c}

\* C1: in every result, cells_compared = len(columns_compared) * rows_file1,
\* rows_file1 being the number of rows of File 1; a rejected call has 0 = 0.
C1_CellsCompared ==
    Compared =>
        /\ Res.rows_file1 = NRows(df1)
        /\ Res.cells_compared = Len(Res.columns_compared) * Res.rows_file1
        /\ Res.error # None => Res.cells_compared = 0 /\ Res.columns_compared = <<>>

\* C1 witness: a comparison of two columns over a matched and an unmatched row.
C1_Witness ==
    /\ Succeeded
    /\ Len(Res.columns_compared) = 2
    /\ \E i1, i2 \in RowsOf(df1) : MatchesOf(i1) # {} /\ MatchesOf(i2) = {}
    /\ Res.cells_compared = 2 * NRows(df1)

\* C2: for a row i of File 1 whose key is in File 2's index and a compared
\* column c, a difference for (i, c) is recorded iff the normalized values of
\* File 1's cell and of the matched row's cell differ, and the crosstab cell
\* of (i, c), when the row has an entry, carries that same verdict.
C2_MatchedVerdict ==
    Succeeded =>
        \A i \in RowsOf(df1) : MatchesOf(i) # {} =>
            \A c \in Range(Res.columns_compared) :
                LET j == FirstMatch(i)
                    differ == _normalize_value(Cell(df1, c, i))
                                # _normalize_value(Cell(df2, c, j))
                IN  /\ (DiffsAt(i, c) # {}) <=> differ
                    /\ \A n \in EntriesOf(i) :
                          /\ CellsOf(Res.key_crosstabs[n], c) # {}
                          /\ \A m \in CellsOf(Res.key_crosstabs[n], c) :
                                Res.key_crosstabs[n].rows[m].is_difference = differ

\* C2 witness: a matched row with one cell whose raw values differ and whose
\* normalized values agree, and one cell that is a recorded difference.
C2_Witness ==
    /\ Succeeded
    /\ \E i \in RowsOf(df1) :
          /\ MatchesOf(i) # {}
          /\ \E c1, c2 \in Range(Res.columns_compared) :
                /\ Cell(df1, c1, i) # Cell(df2, c1, FirstMatch(i))
                /\ ~ IsNa(Cell(df1, c1, i))
                /\ DiffsAt(i, c1) = {}
                /\ DiffsAt(i, c2) # {}
                /\ EntriesOf(i) # {}

\* C3: for a row i of File 1 whose key is not in File 2's index, every
\* compared column has exactly one difference for row i; its value_file2 is
\* the text "(missing in File 2)", its excel_row_file2 is None and its
\* value_file1 is File 1's cell, whatever that cell holds.
C3_UnmatchedAllColumns ==
    Succeeded =>
        \A i \in RowsOf(df1) : MatchesOf(i) = {} =>
            \A c \in Range(Res.columns_compared) :
                /\ Cardinality(DiffsAt(i, c)) = 1
                /\ \A n \in DiffsAt(i, c) :
                      /\ Res.differences[n].value_file2 = StrVal(MissingInFile2)
                      /\ Res.differences[n].excel_row_file2 = None
                      /\ Res.differences[n].value_file1 = Cell(df1, c, i)
                      /\ Res.differences[n].excel_row = i + 2

\* C3 witness: an unmatched row with an empty cell in a compared column, in
\* a File 2 that has rows.
C3_Witness ==
    /\ Succeeded
    /\ NRows(df2) > 0
    /\ \E i \in RowsOf(df1) :
          /\ MatchesOf(i) = {}
          /\ \E c \in Range(Res.columns_compared) :
                IsNa(Cell(df1, c, i)) /\ DiffsAt(i, c) # {}

\* C4 (as claimed): key_crosstabs has an entry for row i of File 1 iff row i
\* has at least one differing cell: a recorded difference, and in the entry a
\* cell with is_difference true.
C4_CrosstabIffDifference ==
    Succeeded =>
        \A i \in RowsOf(df1) :
            /\ (EntriesOf(i) # {}) <=>
                  (\E n \in 1..Len(Res.differences) : Res.differences[n].row_index = i)
            /\ \A n \in EntriesOf(i) :
                  \E m \in 1..Len(Res.key_crosstabs[n].rows) :
                      Res.key_crosstabs[n].rows[m].is_difference

\* C5: if a key column is absent from File 1 or File 2 the result has an
\* error and only empty aggregates; if all key columns are in both, error is
\* None.
C5_MissingKeyColumn ==
    Compared =>
        LET absent == \E k \in Range(K) : k \notin Columns(df1) \/ k \notin Columns(df2)
        IN  /\ absent =>
                /\ Res.error # None
                /\ Res.differences = <<>>
                /\ Res.key_crosstabs = <<>>
                /\ Res.common_columns = <<>>
                /\ Res.columns_only_in_file1 = <<>>
                /\ Res.columns_only_in_file2 = <<>>
                /\ Res.columns_compared = <<>>
                /\ Res.keys_only_in_file1 = <<>>
                /\ Res.keys_only_in_file2 = <<>>
                /\ Res.cells_compared = 0
                /\ Res.total_differences = 0
            /\ ~ absent => Res.error = None

\* C5 witness: the key column is in File 1 only, both files have rows and a
\* registry column in common, and the call returned the error about File 2.
C5_Witness ==
    /\ Compared
    /\ Res.error # None
    /\ Res.error[1].file = 2
    /\ NRows(df1) > 0
    /\ NRows(df2) > 0
    /\ "0GN_VENDOR" \in Columns(df1) \cap Columns(df2)

\* C6: when several rows of File 2 carry one composite key, the index maps
\* the key to the lowest of them, and every row of File 1 with that key takes
\* its File 2 values and its File 2 display row (position + 2) from that row,
\* in its differences and in its crosstab entry.
C6_FirstDuplicateWins ==
    Succeeded =>
        \A i \in RowsOf(df1) : Cardinality(MatchesOf(i)) >= 2 =>
            LET j == FirstMatch(i)
            IN  /\ _build_key_to_row_index(df2, K)[_row_key(df1, K, i)] = j
                /\ \A n \in 1..Len(Res.differences) :
                      Res.differences[n].row_index = i =>
                          /\ Res.differences[n].excel_row_file2 = Some(j + 2)
                          /\ Res.differences[n].value_file2
                                = Cell(df2, Res.differences[n].column, j)
                /\ \A n \in EntriesOf(i) :
                      /\ Res.key_crosstabs[n].excel_row_file2 = Some(j + 2)
                      /\ \A m \in 1..Len(Res.key_crosstabs[n].rows) :
                            Res.key_crosstabs[n].rows[m].file2
                                = Cell(df2, Res.key_crosstabs[n].rows[m].column, j)

\* C6 witness: two rows of File 2 with one key and different values in a
\* compared column, two rows of File 1 with that key, and a difference that
\* a match with the later row of File 2 would not have produced.
C6_Witness ==
    /\ Succeeded
    /\ \E i1, i2 \in RowsOf(df1) :
          /\ i1 # i2
          /\ MatchesOf(i1) = {0, 1}
          /\ MatchesOf(i2) = {0, 1}
          /\ \E c \in Range(Res.columns_compared) :
                /\ DiffsAt(i1, c) # {}
                /\ DiffsAt(i2, c) # {}
                /\ _normalize_value(Cell(df1, c, i1)) = _normalize_value(Cell(df2, c, 1))
                /\ _normalize_value(Cell(df1, c, i2)) = _normalize_value(Cell(df2, c, 1))

\* The position of a column in a column list.
PosIn(cols, c) == CHOOSE n \in 1..Len(cols) : cols[n] = c

KeySet(df) == {_row_key(df, K, i) : i \in RowsOf(df)}

\* C8: after a comparison, keys_only_in_file1 lists, each once, the keys of
\* File 1 that no row of File 2 has, and keys_only_in_file2 the keys of File 2
\* that no row of File 1 has; a row of File 1 is handled as unmatched (its
\* crosstab entry has no File 2 row) iff its key is in keys_only_in_file1;
\* and an empty File 1 gives no difference, no crosstab entry and every
\* distinct key of File 2 in keys_only_in_file2.
C8_KeysOnly ==
    Succeeded =>
        /\ Range(Res.keys_only_in_file1) = {TupleStr(k) : k \in KeySet(df1) \ KeySet(df2)}
        /\ Len(Res.keys_only_in_file1) = Cardinality(KeySet(df1) \ KeySet(df2))
        /\ Range(Res.keys_only_in_file2) = {TupleStr(k) : k \in KeySet(df2) \ KeySet(df1)}
        /\ Len(Res.keys_only_in_file2) = Cardinality(KeySet(df2) \ KeySet(df1))
        /\ \A i \in RowsOf(df1) :
              (\E n \in EntriesOf(i) : Res.key_crosstabs[n].excel_row_file2 = None)
                  <=> TupleStr(_row_key(df1, K, i)) \in Range(Res.keys_only_in_file1)
        /\ NRows(df1) = 0 =>
              /\ Res.differences = <<>>
              /\ Res.key_crosstabs = <<>>
              /\ Len(Res.keys_only_in_file2) = Cardinality(KeySet(df2))

\* C8 witness: File 1 has a matched and an unmatched row, and File 2 a key
\* that File 1 lacks.
C8_Witness ==
    /\ Succeeded
    /\ Res.keys_only_in_file1 # <<>>
    /\ Res.keys_only_in_file2 # <<>>
    /\ \E i \in RowsOf(df1) : MatchesOf(i) # {}
    /\ Cardinality(KeySet(df2)) = 2

Abs(x) == IF x < 0 THEN -x ELSE x

\* C9: match_percentage (in hundredths of a percent) is 100.00 whenever
\* total_differences = 0 or cells_compared = 0, and otherwise the hundredth
\* nearest to 100 * (1 - total_differences / cells_compared); the summary
\* shown carries that value.
C9_MatchPercentage ==
    Compared =>
        LET mp == match_percentage(Res)
            td == Res.total_differences
            cc == Res.cells_compared
        IN  /\ (td = 0 \/ cc = 0) => mp = 10000
            /\ ~ (td = 0 \/ cc = 0) =>
                  2 * Abs(mp * cc - 10000 * (cc - td)) <= cc
            /\ (pc = "shown" /\ shown.summary # None) =>
                  shown.summary[1].match_percentage = mp

\* C9 witness: one difference in three cells, shown as 66.67.
C9_Witness ==
    /\ pc = "shown"
    /\ Succeeded
    /\ Res.cells_compared = 3
    /\ Res.total_differences = 1
    /\ shown.summary[1].match_percentage = 6667

\* C10 (as claimed): when the key columns are valid and no column is
\* compared, the page does not say "No cell differences found".
C10_NoColumnsNotReportedAsNoDifferences ==
    (pc = "shown" /\ Succeeded /\ Res.columns_compared = <<>>) =>
        shown.info # Some(InfoNoDifferences)

\* C11: an invocation leaves the two tables and the key columns as they
\* were, and once a result was returned every later invocation on the same
\* tables and key columns, whatever the hash seed of its process, returns an
\* identical result: differences, key_crosstabs, key-only lists, column lists
\* and counters, and with them the match percentage.
C11_Deterministic ==
    [][ /\ df1' = df1
        /\ df2' = df2
        /\ key_columns' = key_columns
        /\ result # None =>
              /\ result' = result
              /\ match_percentage(result'[1]) = match_percentage(result[1]) ]_vars

\* C11 witness: the comparison was run again on tables whose key-only lists
\* and column lists hold two elements each, which the two hash seeds hand
\* over in different orders, and which have differences.
C11_Witness ==
    /\ rerun
    /\ Succeeded
    /\ Len(Res.keys_only_in_file2) = 2
    /\ Len(Res.common_columns) = 2
    /\ Res.differences # <<>>
    /\ Res.key_crosstabs # <<>>
    /\ SetIter(KeySet(df2) \ KeySet(df1), 0) # SetIter(KeySet(df2) \ KeySet(df1), 1)

\* C12: differences follow File 1's rows and, within a row, the order of
\* columns_compared, with at most one difference per (row, column);
\* key_crosstabs holds at most one entry per row of File 1, in strictly
\* increasing File 1 display row (position + 2); and the cell list of every
\* entry has one cell per compared column, in the order of columns_compared.
C12_RowOrder ==
    Compared =>
        LET ds == Res.differences
            ks == Res.key_crosstabs
            cc == Res.columns_compared
        IN  /\ \A n \in 1..Len(ds) :
                  /\ ds[n].row_index \in RowsOf(df1)
                  /\ ds[n].column \in Range(cc)
            /\ \A m, n \in 1..Len(ds) :
                  m < n =>
                      \/ ds[m].row_index < ds[n].row_index
                      \/ /\ ds[m].row_index = ds[n].row_index
                         /\ PosIn(cc, ds[m].column) < PosIn(cc, ds[n].column)
            /\ \A n \in 1..Len(ks) : ks[n].excel_row_file1 - 2 \in RowsOf(df1)
            /\ \A m, n \in 1..Len(ks) :
                  m < n => ks[m].excel_row_file1 < ks[n].excel_row_file1
            /\ \A n \in 1..Len(ks) :
                  [m \in 1..Len(ks[n].rows) |-> ks[n].rows[m].column] = cc

\* C12 witness: two compared columns and two rows, compared a second time;
\* the first row of File 1 is matched and differs in one column, the second
\* is unmatched and differs in both.
C12_Witness ==
    /\ rerun
    /\ Succeeded
    /\ Len(Res.columns_compared) = 2
    /\ NRows(df1) = 2
    /\ Len(Res.differences) = 3
    /\ Len(Res.key_crosstabs) = 2
    /\ MatchesOf(0) # {}
    /\ MatchesOf(1) = {}
    /\ Res.differences[1].row_index = 0
    /\ Res.differences[2].row_index = 1
    /\ Res.differences[2].column = Res.columns_compared[1]
    /\ Res.differences[3].column = Res.columns_compared[2]
    /\ Res.key_crosstabs[1].excel_row_file1 = 2
    /\ Res.key_crosstabs[1].excel_row_file2 # None
    /\ Res.key_crosstabs[2].excel_row_file1 = 3
    /\ Res.key_crosstabs[2].excel_row_file2 = None

RECURSIVE SumSeq(_)
SumSeq(seq) == IF seq = <<>> THEN 0 ELSE Head(seq) + SumSeq(Tail(seq))

\* The number of cells with is_difference in each crosstab entry.
DifferingCells(ks) ==
    [n \in 1..Len(ks) |->
        Cardinality({m \in 1..Len(ks[n].rows) : ks[n].rows[m].is_difference})]

\* C13: total_differences is the length of differences and the number of
\* cells with is_difference over all crosstab entries, it is at most
\* cells_compared, and the "No. of columns differing" values of the exported
\* sheet add up to it.
C13_TotalDifferences ==
    Compared =>
        /\ Res.total_differences = Len(Res.differences)
        /\ Res.total_differences = SumSeq(DifferingCells(Res.key_crosstabs))
        /\ Res.total_differences <= Res.cells_compared
        /\ (pc = "shown" /\ shown.download # None) =>
              Res.total_differences
                  = SumSeq([n \in 1..Len(shown.download[1]) |->
                               shown.download[1][n].diff_count])

\* C13 witness: the exported sheet of a comparison with a matched row that
\* differs in one of two columns, an unmatched row, and a cell that agrees.
C13_Witness ==
    /\ pc = "shown"
    /\ Succeeded
    /\ shown.download # None
    /\ Len(shown.download[1]) = 2
    /\ shown.download[1][1].diff_count = 1
    /\ shown.download[1][2].diff_count = 2
    /\ Res.total_differences = 3
    /\ Res.cells_compared > 3

====
